---- MODULE Spec2Model ----
(***************************************************************************)
(* Model of the two pseudo-random number generators of the repository:     *)
(* class LCG (src/rng_lcg.py) and class XORShiftRNG (src/rng_xor_shift.py) *)
(*                                                                         *)
(* Python integers are unbounded, and the default modulus 2**32 does not   *)
(* fit TLC's integers, so a Python int is modelled by its sign and its     *)
(* magnitude, the magnitude being a little-endian sequence of base-256     *)
(* digits without leading zero digits (<< >> is 0).  Python floats are     *)
(* IEEE-754 doubles: a non-negative double is modelled as sig * 2^exp with *)
(* sig = 0 or 2^52 <= sig < 2^53, and every float operation rounds its     *)
(* exact result to the nearest double, ties to even.                       *)
(***************************************************************************)
EXTENDS Integers, Sequences, FiniteSets, TLC

Inst == {1, 2}

VARIABLES
  obj,      \* obj[i]: the generator object i, NoObj before its construction
  last,     \* last[i]: the latest call on object i and its outcome
  ncalls,   \* ncalls[i]: the calls made on object i (its construction included)
  script,   \* the calls replayed on both objects (<< >>: calls are free)
  out       \* out[i]: what the replayed calls returned or raised, in order

vars == <<obj, last, ncalls, script, out>>

(***************************************************************************)
(* Magnitudes: the arithmetic of Python's non-negative ints.               *)
(***************************************************************************)
Limb(a, i) == IF i <= Len(a) THEN a[i] ELSE 0

RECURSIVE NNorm(_)
NNorm(a) ==
  IF a = << >> THEN << >>
  ELSE IF a[Len(a)] = 0 THEN NNorm(SubSeq(a, 1, Len(a) - 1))
  ELSE a

RECURSIVE NFromInt(_)
NFromInt(n) == IF n = 0 THEN << >> ELSE <<n % 256>> \o NFromInt(n \div 256)

RECURSIVE NToIntFrom(_, _)
NToIntFrom(a, i) == IF i > Len(a) THEN 0 ELSE a[i] + 256 * NToIntFrom(a, i + 1)

NToInt(a) == NToIntFrom(a, 1)

RECURSIVE NCmpFrom(_, _, _)
NCmpFrom(a, b, i) ==
  IF i = 0 THEN 0
  ELSE IF Limb(a, i) < Limb(b, i) THEN -1
  ELSE IF Limb(a, i) > Limb(b, i) THEN 1
  ELSE NCmpFrom(a, b, i - 1)

NCmp(a, b) == NCmpFrom(a, b, IF Len(a) > Len(b) THEN Len(a) ELSE Len(b))

NLess(a, b) == NCmp(a, b) < 0

NLeq(a, b) == NCmp(a, b) <= 0

RECURSIVE NAddFrom(_, _, _, _)
NAddFrom(a, b, i, carry) ==
  IF i > Len(a) /\ i > Len(b)
  THEN IF carry = 0 THEN << >> ELSE <<carry>>
  ELSE LET t == Limb(a, i) + Limb(b, i) + carry
       IN  <<t % 256>> \o NAddFrom(a, b, i + 1, t \div 256)

NAdd(a, b) == NAddFrom(a, b, 1, 0)

RECURSIVE NSubFrom(_, _, _, _)
NSubFrom(a, b, i, borrow) ==
  IF i > Len(a) THEN << >>
  ELSE LET t == Limb(a, i) - Limb(b, i) - borrow
       IN  IF t < 0 THEN <<t + 256>> \o NSubFrom(a, b, i + 1, 1)
           ELSE <<t>> \o NSubFrom(a, b, i + 1, 0)

\* a - b for a >= b
NSub(a, b) == NNorm(NSubFrom(a, b, 1, 0))

RECURSIVE NMulSmallFrom(_, _, _, _)
NMulSmallFrom(a, d, i, carry) ==
  IF i > Len(a) THEN NFromInt(carry)
  ELSE LET t == a[i] * d + carry
       IN  <<t % 256>> \o NMulSmallFrom(a, d, i + 1, t \div 256)

\* a * d for a digit-sized d (0 <= d <= 256)
NMulSmall(a, d) == IF d = 0 THEN << >> ELSE NMulSmallFrom(a, d, 1, 0)

Zeros(k) == [j \in 1..k |-> 0]

RECURSIVE NMulFrom(_, _, _)
NMulFrom(a, b, i) ==
  IF i > Len(b) THEN << >>
  ELSE NAdd(NNorm(Zeros(i - 1) \o NMulSmall(a, b[i])), NMulFrom(a, b, i + 1))

NMul(a, b) == IF a = << >> THEN << >> ELSE NMulFrom(a, b, 1)

RECURSIVE Pow2(_)
Pow2(k) == IF k = 0 THEN 1 ELSE 2 * Pow2(k - 1)

\* a << k
NShl(a, k) ==
  IF a = << >> THEN << >>
  ELSE Zeros(k \div 8) \o NMulSmall(a, Pow2(k % 8))

RECURSIVE NShrSmallFrom(_, _, _)
NShrSmallFrom(a, s, i) ==
  IF i > Len(a) THEN << >>
  ELSE <<(a[i] \div Pow2(s)) + (Limb(a, i + 1) % Pow2(s)) * Pow2(8 - s)>>
         \o NShrSmallFrom(a, s, i + 1)

\* a >> k
NShr(a, k) ==
  IF k \div 8 >= Len(a) THEN << >>
  ELSE NNorm(NShrSmallFrom(SubSeq(a, (k \div 8) + 1, Len(a)), k % 8, 1))

RECURSIVE DigitLen(_)
DigitLen(d) == IF d = 0 THEN 0 ELSE 1 + DigitLen(d \div 2)

\* int.bit_length()
NBitLen(a) == IF a = << >> THEN 0 ELSE 8 * (Len(a) - 1) + DigitLen(a[Len(a)])

NBit(a, i) == (Limb(a, (i \div 8) + 1) \div Pow2(i % 8)) % 2

NPow2(k) == NShl(<<1>>, k)

\* Long division, one digit of the dividend at a time, most significant first.
\* QuoDigit is the largest d in 0..255 with b * d <= r, found by bisection.
RECURSIVE QuoDigit(_, _, _, _)
QuoDigit(r, b, step, d) ==
  IF step = 0 THEN d
  ELSE IF NLeq(NMulSmall(b, d + step), r)
       THEN QuoDigit(r, b, step \div 2, d + step)
       ELSE QuoDigit(r, b, step \div 2, d)

\* The quotient and remainder of a by b (b > 0), the remainder in [0, b):
\* digit i of a is brought down to the remainder r of the digits above it.
RECURSIVE NDivModFrom(_, _, _, _, _)
NDivModFrom(a, b, i, q, r) ==
  IF i = 0 THEN [q |-> NNorm(q), r |-> r]
  ELSE LET r0 == NNorm(<<a[i]>> \o r)
           d  == QuoDigit(r0, b, 128, 0)
           r1 == NSub(r0, NMulSmall(b, d))
       IN  IF r1 = << >>
           THEN NDivModFrom(a, b, i - 1, <<d>> \o q, << >>)
           ELSE NDivModFrom(a, b, i - 1, <<d>> \o q, r1)

NDivMod(a, b) == NDivModFrom(a, b, Len(a), << >>, << >>)

NMod(a, b) == NDivMod(a, b).r

(***************************************************************************)
(* Bitwise operators on magnitudes (Python's ^ and & on non-negative ints) *)
(***************************************************************************)
RECURSIVE DigitXor(_, _)
DigitXor(x, y) ==
  IF x = 0 THEN y
  ELSE IF y = 0 THEN x
  ELSE ((x + y) % 2) + 2 * DigitXor(x \div 2, y \div 2)

RECURSIVE DigitAnd(_, _)
DigitAnd(x, y) ==
  IF x = 0 \/ y = 0 THEN 0
  ELSE ((x % 2) * (y % 2)) + 2 * DigitAnd(x \div 2, y \div 2)

MaxLen(a, b) == IF Len(a) > Len(b) THEN Len(a) ELSE Len(b)

NXor(a, b) == NNorm([i \in 1..MaxLen(a, b) |-> DigitXor(Limb(a, i), Limb(b, i))])

NAnd(a, b) == NNorm([i \in 1..Len(b) |-> DigitAnd(Limb(a, i), b[i])])

(***************************************************************************)
(* Signed Python ints: [neg, mag], with neg = FALSE for 0.                 *)
(***************************************************************************)
ZMake(neg, mag) == [neg |-> neg /\ mag # << >>, mag |-> mag]

\* the Python int of a TLC integer
Z(n) == IF n < 0 THEN ZMake(TRUE, NFromInt(-n)) ELSE ZMake(FALSE, NFromInt(n))

ZIsZero(x) == x.mag = << >>

ZAdd(x, y) ==
  IF x.neg = y.neg THEN ZMake(x.neg, NAdd(x.mag, y.mag))
  ELSE IF NLeq(y.mag, x.mag) THEN ZMake(x.neg, NSub(x.mag, y.mag))
  ELSE ZMake(y.neg, NSub(y.mag, x.mag))

ZMul(x, y) == ZMake(x.neg # y.neg, NMul(x.mag, y.mag))

\* Python's x % m for a modulus m > 0 (a magnitude): the result has the sign
\* of the modulus, so it is the magnitude in [0, m) congruent to x.
PyModOf(neg, r, m) == IF neg /\ r # << >> THEN NSub(m, r) ELSE r

PyMod(x, m) == PyModOf(x.neg, NMod(x.mag, m), m)

\* Python's x & mask for a mask >= 0: a negative x is read in two's
\* complement, that is as the complement of the bits of -x - 1.
PyAnd(x, mask) ==
  IF ~x.neg THEN NAnd(x.mag, mask)
  ELSE LET y == NSub(x.mag, <<1>>)
       IN  NNorm([i \in 1..Len(mask) |-> DigitAnd(255 - Limb(y, i), mask[i])])

(***************************************************************************)
(* Doubles.  RoundToDouble(num, den, e) is the double nearest to the        *)
(* rational (num / den) * 2^e (den > 0), ties to even; the exponent range   *)
(* of a double is not modelled (no overflow to inf, no subnormals).         *)
(***************************************************************************)
FZero == [sig |-> << >>, exp |-> 0]

\* sig1 * 2^e1 with sig1 in [2^52, 2^53]: sig1 = 2^53 is renormalised
RoundCarry(sig1, e1) ==
  IF NBitLen(sig1) = 54 THEN [sig |-> NShr(sig1, 1), exp |-> e1 + 1]
  ELSE [sig |-> sig1, exp |-> e1]

\* (sig0 + half/2 + something in [0, 1/2), non-zero iff rest) * 2^e1, rounded
RoundBits(sig0, half, rest, e1) ==
  RoundCarry(IF half = 1 /\ (rest \/ NBit(sig0, 0) = 1)
             THEN NAdd(sig0, <<1>>) ELSE sig0, e1)

\* (dm.q + something in [0, 1), non-zero iff dm.r # 0) * 2^e0, rounded to 53
\* bits; dm.q has 54 or 55 bits
RoundQuotient(dm, e0) ==
  IF NBitLen(dm.q) = 55
  THEN RoundBits(NShr(dm.q, 2), NBit(dm.q, 1),
                 dm.r # << >> \/ NBit(dm.q, 0) = 1, e0 + 2)
  ELSE RoundBits(NShr(dm.q, 1), NBit(dm.q, 0), dm.r # << >>, e0 + 1)

\* the quotient and remainder of num * 2^k by den
ScaledDivMod(num, den, k) ==
  IF k >= 0 THEN NDivMod(NShl(num, k), den) ELSE NDivMod(num, NShl(den, -k))

\* the scaling that gives the quotient 54 or 55 bits
QuotientShift(num, den) == 54 - (NBitLen(num) - NBitLen(den))

RoundToDouble(num, den, e) ==
  IF num = << >> THEN FZero
  ELSE RoundQuotient(ScaledDivMod(num, den, QuotientShift(num, den)),
                     e - QuotientShift(num, den))

\* float(n) for an int n >= 0
FFromInt(n) == RoundToDouble(n, <<1>>, 0)

\* int / int (true division) for a >= 0, b > 0
TrueDiv(a, b) == RoundToDouble(a, b, 0)

\* float + float
FAdd(x, y) ==
  IF x.sig = << >> THEN y
  ELSE IF y.sig = << >> THEN x
  ELSE LET e == IF x.exp < y.exp THEN x.exp ELSE y.exp
       IN  RoundToDouble(NAdd(NShl(x.sig, x.exp - e), NShl(y.sig, y.exp - e)),
                         <<1>>, e)

\* float / float, y > 0
FDiv(x, y) == RoundToDouble(x.sig, y.sig, x.exp - y.exp)

FIsZero(x) == x.sig = << >>

\* x < 1.0
FLessOne(x) == x.sig = << >> \/ x.exp <= -53

\* x = 1.0
FIsOne(x) == x.sig = NPow2(52) /\ x.exp = -52

(***************************************************************************)
(* Program constants.                                                      *)
(***************************************************************************)
DefaultA == 1664525
DefaultC == 1013904223
DefaultMExp == 32
DefaultM == NPow2(DefaultMExp)
DefaultQ == 13
DefaultR == 17
DefaultS == 5

\* 0xFFFFFFFF
Mask32 == NSub(NPow2(32), <<1>>)

\* the float literal 1e-6: the double nearest to 1 / 10^6
Epsilon == RoundToDouble(<<1>>, NFromInt(1000000), 0)

(***************************************************************************)
(* Python's builtins min and max on a non-empty list of ints >= 0.         *)
(***************************************************************************)
RECURSIVE MinFrom(_, _, _)
MinFrom(seq, i, best) ==
  IF i > Len(seq) THEN best
  ELSE MinFrom(seq, i + 1, IF NLess(seq[i], best) THEN seq[i] ELSE best)

Min(seq) == MinFrom(seq, 2, seq[1])

RECURSIVE MaxFrom(_, _, _)
MaxFrom(seq, i, best) ==
  IF i > Len(seq) THEN best
  ELSE MaxFrom(seq, i + 1, IF NLess(best, seq[i]) THEN seq[i] ELSE best)

Max(seq) == MaxFrom(seq, 2, seq[1])

(***************************************************************************)
(* The result of a call: the object after it (for a constructor, the new   *)
(* object, or NoObj when it raised), the value returned, and the exception *)
(* raised ("none" when the call returned).                                 *)
(***************************************************************************)
NoObj == [kind |-> "none"]

\* Values are tagged with their Python type: int (next() returns an int of any
\* size, a magnitude; randint a small one, a TLC integer), float, list.
NoValue == [t |-> "none"]

IntV(x) == [t |-> "int", v |-> x]

SmallIntV(n) == [t |-> "smallint", v |-> n]

FloatV(f) == [t |-> "float", v |-> f]

IntsV(seq) == [t |-> "ints", v |-> seq]

FloatsV(seq) == [t |-> "floats", v |-> seq]

NoArgs == [none |-> TRUE]

Returned(o, v) == [obj |-> o, ret |-> v, raised |-> "none"]

Raised(o, e) == [obj |-> o, ret |-> NoValue, raised |-> e]

(***************************************************************************)
(* class LCG                                                               *)
(***************************************************************************)
\* (mutant) self.state = seed, without the reduction modulo m
LCG_init_unreduced(seed, a, c, m) ==
  IF ZIsZero(seed) THEN Raised(NoObj, "ValueError")
  ELSE Returned([kind |-> "LCG", state |-> seed.mag,
                 a |-> a, c |-> c, m |-> m], NoValue)

LCG_init(seed, a, c, m) ==
  IF ZIsZero(seed) THEN Raised(NoObj, "ValueError")
  ELSE Returned([kind |-> "LCG", state |-> PyMod(seed, m),
                 a |-> a, c |-> c, m |-> m], NoValue)

\* (mutant) the product a * state kept to 64 bits, as a fixed-width multiply
LCG_step_wrap64(self) ==
  PyMod(ZAdd(ZMake(self.a.neg,
                   NAnd(NMul(self.a.mag, self.state), NSub(NPow2(64), <<1>>))),
             self.c), self.m)

\* (mutant) the state kept in an attribute of the class, shared by all objects
LCG_step_shared(self) ==
  PyMod(ZAdd(ZMul(self.a, ZMake(FALSE, IF obj[1].kind = "LCG" THEN obj[1].state
                                        ELSE self.state)), self.c), self.m)

\* (self.a * self.state + self.c) % self.m
LCG_step(self) ==
  PyMod(ZAdd(ZMul(self.a, ZMake(FALSE, self.state)), self.c), self.m)

\* self.state = new; return self.state
LCG_set_state(self, new) == Returned([self EXCEPT !.state = new], IntV(new))

LCG_next(self) == LCG_set_state(self, LCG_step(self))

\* n / self.m, for the result n of self.next()
LCG_random_of(n) == Returned(n.obj, FloatV(TrueDiv(n.ret.v, n.obj.m)))

LCG_random(self) == LCG_random_of(LCG_next(self))

\* (mutant) n % (high - low + 1), without the offset low
LCG_randint_of_unshifted(n, low, high) ==
  Returned(n.obj, SmallIntV(NToInt(NMod(n.ret.v, NFromInt(high - low + 1)))))

\* low + n % (high - low + 1), for the result n of self.next()
LCG_randint_of(n, low, high) ==
  Returned(n.obj, SmallIntV(low + NToInt(NMod(n.ret.v, NFromInt(high - low + 1)))))

\* (mutant) next() is called before the range is checked
LCG_randint_late(self, low, high) ==
  IF low > high THEN Raised(LCG_next(self).obj, "ValueError")
  ELSE LCG_randint_of(LCG_next(self), low, high)

LCG_randint(self, low, high) ==
  IF low > high THEN Raised(self, "ValueError")
  ELSE LCG_randint_of(LCG_next(self), low, high)

\* (mutant) [self.next()] * n: one call, its value repeated n times
LCG_draw_repeated(self, n, seq) ==
  [obj |-> LCG_next(self).obj, seq |-> [i \in 1..n |-> LCG_next(self).ret.v]]

\* [self.next() for _ in range(n)]: the object after the n calls and the
\* list, seq being the list so far and r the result of the latest next()
RECURSIVE LCG_draw(_, _, _)
RECURSIVE LCG_draw_more(_, _, _)
LCG_draw_more(r, n, seq) == LCG_draw(r.obj, n - 1, Append(seq, r.ret.v))

LCG_draw(self, n, seq) ==
  IF n = 0 THEN [obj |-> self, seq |-> seq]
  ELSE LCG_draw_more(LCG_next(self), n, seq)

\* (mutant) the scaling without the 1e-6 in the denominator
LCG_scaled_no_epsilon(seq, min_val, max_val) ==
  IF max_val = min_val THEN [i \in 1..Len(seq) |-> FZero]
  ELSE [i \in 1..Len(seq) |->
          FDiv(FFromInt(NSub(seq[i], min_val)),
               FFromInt(NSub(max_val, min_val)))]

\* [(x - min_val) / den for x in seq], den being the value that
\* max_val - min_val + 1e-6 has for every x
LCG_scaled_by(seq, min_val, den) ==
  [i \in 1..Len(seq) |-> FDiv(FFromInt(NSub(seq[i], min_val)), den)]

\* the min-max scaling of seq
LCG_scaled(seq, min_val, max_val) ==
  IF max_val = min_val THEN [i \in 1..Len(seq) |-> FZero]
  ELSE LCG_scaled_by(seq, min_val, FAdd(FFromInt(NSub(max_val, min_val)), Epsilon))

\* what generate_sequence returns once the list d.seq is drawn
LCG_sequence_of(d, scale) ==
  IF ~scale THEN Returned(d.obj, IntsV(d.seq))
  ELSE Returned(d.obj, FloatsV(LCG_scaled(d.seq, Min(d.seq), Max(d.seq))))

LCG_generate_sequence(self, n, scale) ==
  IF n <= 0 THEN Raised(self, "ValueError")
  ELSE LCG_sequence_of(LCG_draw(self, n, << >>), scale)

(***************************************************************************)
(* class XORShiftRNG                                                       *)
(***************************************************************************)
XORShiftRNG_init(seed, q, r, s) ==
  IF ZIsZero(seed) THEN Raised(NoObj, "ValueError")
  ELSE Returned([kind |-> "XORShiftRNG", state |-> PyAnd(seed, Mask32),
                 q |-> q, r |-> r, s |-> s], NoValue)

\* (mutant) x ^ (x << k): the mask left to the end of next()
XorShl_unmasked(x, k) == NXor(x, NShl(x, k))

\* (mutant) (x << k) & 0xFFFFFFFF: x = ... in place of x ^= ...
XorShl_assigned(x, k) == NAnd(NShl(x, k), Mask32)

\* x ^ ((x << k) & 0xFFFFFFFF)
XorShl(x, k) == NXor(x, NAnd(NShl(x, k), Mask32))

\* x ^ (x >> k)
XorShr(x, k) == NXor(x, NShr(x, k))

XORShiftRNG_step(self) ==
  NAnd(XorShl(XorShr(XorShl(self.state, self.q), self.r), self.s), Mask32)

\* self.state = new; return self.state
XORShiftRNG_set_state(self, new) == Returned([self EXCEPT !.state = new], IntV(new))

XORShiftRNG_next(self) == XORShiftRNG_set_state(self, XORShiftRNG_step(self))

\* n / 2**32, for the result n of self.next()
XORShiftRNG_random_of(n) == Returned(n.obj, FloatV(TrueDiv(n.ret.v, NPow2(32))))

XORShiftRNG_random(self) == XORShiftRNG_random_of(XORShiftRNG_next(self))

\* low + n % (high - low + 1), for the result n of self.next()
XORShiftRNG_randint_of(n, low, high) ==
  Returned(n.obj, SmallIntV(low + NToInt(NMod(n.ret.v, NFromInt(high - low + 1)))))

XORShiftRNG_randint(self, low, high) ==
  IF low > high THEN Raised(self, "ValueError")
  ELSE XORShiftRNG_randint_of(XORShiftRNG_next(self), low, high)

\* [self.next() for _ in range(n)]: the object after the n calls and the
\* list, seq being the list so far and r the result of the latest next()
RECURSIVE XORShiftRNG_draw(_, _, _)
RECURSIVE XORShiftRNG_draw_more(_, _, _)
XORShiftRNG_draw_more(r, n, seq) ==
  XORShiftRNG_draw(r.obj, n - 1, Append(seq, r.ret.v))

XORShiftRNG_draw(self, n, seq) ==
  IF n = 0 THEN [obj |-> self, seq |-> seq]
  ELSE XORShiftRNG_draw_more(XORShiftRNG_next(self), n, seq)

\* [(x - min_val) / den for x in seq], den being the value that
\* max_val - min_val + 1e-6 has for every x
XORShiftRNG_scaled_by(seq, min_val, den) ==
  [i \in 1..Len(seq) |-> FDiv(FFromInt(NSub(seq[i], min_val)), den)]

\* the min-max scaling of seq
XORShiftRNG_scaled(seq, min_val, max_val) ==
  IF max_val = min_val THEN [i \in 1..Len(seq) |-> FZero]
  ELSE XORShiftRNG_scaled_by(seq, min_val,
                             FAdd(FFromInt(NSub(max_val, min_val)), Epsilon))

\* what generate_sequence returns once the list d.seq is drawn
XORShiftRNG_sequence_of(d, scale) ==
  IF ~scale THEN Returned(d.obj, IntsV(d.seq))
  ELSE Returned(d.obj, FloatsV(XORShiftRNG_scaled(d.seq, Min(d.seq), Max(d.seq))))

XORShiftRNG_generate_sequence(self, n, scale) ==
  IF n <= 0 THEN Raised(self, "ValueError")
  ELSE XORShiftRNG_sequence_of(XORShiftRNG_draw(self, n, << >>), scale)

(***************************************************************************)
(* The common surface of the two classes.                                  *)
(***************************************************************************)
Next_(self) ==
  IF self.kind = "LCG" THEN LCG_next(self) ELSE XORShiftRNG_next(self)

Random_(self) ==
  IF self.kind = "LCG" THEN LCG_random(self) ELSE XORShiftRNG_random(self)

Randint_(self, low, high) ==
  IF self.kind = "LCG" THEN LCG_randint(self, low, high)
  ELSE XORShiftRNG_randint(self, low, high)

GenerateSequence_(self, n, scale) ==
  IF self.kind = "LCG" THEN LCG_generate_sequence(self, n, scale)
  ELSE XORShiftRNG_generate_sequence(self, n, scale)

(***************************************************************************)
(* Bounds of the model, and the arguments the calls are made with.         *)
(***************************************************************************)
\* calls made on one object after its construction
MaxCalls == 2

\* largest n given to generate_sequence
MaxN == 2

\* calls after the construction in a script replayed on two objects
MaxScript == 2

\* 2^k + d as a Python int
ZP(k, d) == ZAdd(ZMake(FALSE, NPow2(k)), Z(d))

LCGArgsOf(seed, a, c, m) == [kind |-> "LCG", seed |-> seed, a |-> a, c |-> c, m |-> m]

\* Constructor arguments of LCG: the defaults with seeds that are zero,
\* ordinary, negative, at and above the modulus; a modulus that is no power
\* of two with a and state near 2^33 (a * state above 2^64); moduli 2^60 and
\* 2^40 (floats round); small moduli with a negative c, and modulus 1.
LCGArgs ==
  { LCGArgsOf(Z(s), Z(DefaultA), Z(DefaultC), DefaultM) : s \in {0, 123456, -1} }
  \cup { LCGArgsOf(ZP(32, d), Z(DefaultA), Z(DefaultC), DefaultM) : d \in {0, 5} }
  \cup { LCGArgsOf(ZP(33, -11), ZP(33, -10), Z(12345), ZP(33, -9).mag),
         LCGArgsOf(ZP(60, -3), Z(1), Z(1), NPow2(60)),
         LCGArgsOf(Z(1), Z(1), ZP(34, 0), NPow2(40)),
         LCGArgsOf(Z(1), Z(1), ZP(34, -1), NPow2(40)),
         LCGArgsOf(Z(-5), Z(3), Z(-2), NFromInt(7)),
         LCGArgsOf(Z(7), Z(5), Z(3), NFromInt(16)),
         LCGArgsOf(Z(9), Z(5), Z(3), NFromInt(1)) }

XORArgsOf(seed, q, r, s) == [kind |-> "XORShiftRNG", seed |-> seed, q |-> q, r |-> r, s |-> s]

\* Constructor arguments of XORShiftRNG: the default shifts with seeds that
\* are zero, ordinary, negative, above 2^31, at and above 2^32; other shifts
\* >= 1; a shift of 0; shifts of 32 and more.
XORArgs ==
  { XORArgsOf(Z(s), DefaultQ, DefaultR, DefaultS) : s \in {0, 123456, -1, -123456} }
  \cup { XORArgsOf(ZP(32, d), DefaultQ, DefaultR, DefaultS) : d \in {-5, 0, 1} }
  \cup { XORArgsOf(Z(1), 1, 1, 1),
         XORArgsOf(Z(2024), 7, 9, 8),
         XORArgsOf(Z(5), 0, DefaultR, DefaultS),
         XORArgsOf(Z(77), 3, 5, 0),
         XORArgsOf(Z(99), 32, 40, 33) }

\* (low, high) given to randint
RandintArgs == { <<10, 20>>, <<5, 5>>, <<-7, -2>>, <<20, 10>> }

NoCall == [op |-> "none"]

\* The record of a call: the operation, its arguments, the object before
\* the call and the call's result.
CallRecord(op, args, pre, res) ==
  [op |-> op, args |-> args, pre |-> pre, ret |-> res.ret, raised |-> res.raised]

\* Call op(args) on object i, with result res.
Perform(i, op, args, res) ==
  /\ obj' = [obj EXCEPT ![i] = res.obj]
  /\ last' = [last EXCEPT ![i] = CallRecord(op, args, obj[i], res)]
  /\ ncalls' = [ncalls EXCEPT ![i] = @ + 1]

Construct_LCG(i, args) ==
  /\ obj[i] = NoObj /\ last[i] = NoCall
  /\ args.kind = "LCG"
  /\ Perform(i, "init", args, LCG_init(args.seed, args.a, args.c, args.m))

Construct_XORShiftRNG(i, args) ==
  /\ obj[i] = NoObj /\ last[i] = NoCall
  /\ args.kind = "XORShiftRNG"
  /\ Perform(i, "init", args, XORShiftRNG_init(args.seed, args.q, args.r, args.s))

Call_next(i) ==
  /\ obj[i] # NoObj
  /\ Perform(i, "next", NoArgs, Next_(obj[i]))

Call_random(i) ==
  /\ obj[i] # NoObj
  /\ Perform(i, "random", NoArgs, Random_(obj[i]))

Call_randint(i, low, high) ==
  /\ obj[i] # NoObj
  /\ Perform(i, "randint", [low |-> low, high |-> high], Randint_(obj[i], low, high))

Call_generate_sequence(i, n, scale) ==
  /\ obj[i] # NoObj
  /\ Perform(i, "generate_sequence", [n |-> n, scale |-> scale],
             GenerateSequence_(obj[i], n, scale))

(***************************************************************************)
(* Spec: one object, constructed with any of the arguments above, then any *)
(* calls, at most MaxCalls of them.                                        *)
(***************************************************************************)
Init ==
  /\ obj = [i \in Inst |-> NoObj]
  /\ last = [i \in Inst |-> NoCall]
  /\ ncalls = [i \in Inst |-> 0]
  /\ script = << >>
  /\ out = [i \in Inst |-> << >>]

\* calls are free: no script is replayed
Free == /\ script = << >>
        /\ ncalls[1] <= MaxCalls
        /\ UNCHANGED <<script, out>>

NewLCG == Free /\ \E args \in LCGArgs : Construct_LCG(1, args)

NewXORShiftRNG == Free /\ \E args \in XORArgs : Construct_XORShiftRNG(1, args)

DoNext == Free /\ Call_next(1)

DoRandom == Free /\ Call_random(1)

DoRandint == Free /\ \E lh \in RandintArgs : Call_randint(1, lh[1], lh[2])

DoGenerateSequence ==
  Free /\ \E n \in -1..MaxN, scale \in BOOLEAN : Call_generate_sequence(1, n, scale)

Next ==
  \/ NewLCG
  \/ NewXORShiftRNG
  \/ DoNext
  \/ DoRandom
  \/ DoRandint
  \/ DoGenerateSequence

Spec == Init /\ [][Next]_vars

(***************************************************************************)
(* SpecPair: two objects, each constructed by the same constructor call    *)
(* and then driven through the same calls, each at its own pace.  script   *)
(* is that sequence of calls, the constructor call first; out[i] is what   *)
(* object i's calls returned or raised so far.                             *)
(***************************************************************************)
CallOf(op, low, high, n, scale) ==
  [op |-> op, low |-> low, high |-> high, n |-> n, scale |-> scale]

PairCalls ==
  { CallOf("next", 0, 0, 0, FALSE),
    CallOf("random", 0, 0, 0, FALSE),
    CallOf("randint", -3, 3, 0, FALSE),
    CallOf("randint", 20, 10, 0, FALSE),
    CallOf("generate_sequence", 0, 0, 2, TRUE) }

PairLCGArgs ==
  { LCGArgsOf(Z(123456), Z(DefaultA), Z(DefaultC), DefaultM),
    LCGArgsOf(Z(0), Z(DefaultA), Z(DefaultC), DefaultM),
    LCGArgsOf(ZP(33, -11), ZP(33, -10), Z(12345), ZP(33, -9).mag) }

PairXORArgs ==
  { XORArgsOf(Z(123456), DefaultQ, DefaultR, DefaultS),
    XORArgsOf(Z(-1), 7, 9, 8) }

\* every sequence of exactly k calls
RECURSIVE CallSeqs(_)
CallSeqs(k) ==
  IF k = 0 THEN { << >> }
  ELSE { Append(cs, c) : cs \in CallSeqs(k - 1), c \in PairCalls }

InitPair ==
  /\ obj = [i \in Inst |-> NoObj]
  /\ last = [i \in Inst |-> NoCall]
  /\ ncalls = [i \in Inst |-> 0]
  /\ out = [i \in Inst |-> << >>]
  /\ \E cs \in CallSeqs(MaxScript) :
       \/ \E args \in PairLCGArgs : script = <<args>> \o cs
       \/ \E args \in PairXORArgs : script = <<args>> \o cs

\* object i is about to make call number ncalls[i] + 1 of the script
Replay(i, op) ==
  /\ script # << >>
  /\ ncalls[i] >= 1
  /\ ncalls[i] < Len(script)
  /\ script[ncalls[i] + 1].op = op

Log(i) ==
  /\ out' = [out EXCEPT ![i] = Append(@, [ret |-> last'[i].ret, raised |-> last'[i].raised])]
  /\ UNCHANGED script

PairConstruct(i) ==
  /\ script # << >>
  /\ ncalls[i] = 0
  /\ \/ Construct_LCG(i, script[1])
     \/ Construct_XORShiftRNG(i, script[1])
  /\ Log(i)

PairNext(i) == Replay(i, "next") /\ Call_next(i) /\ Log(i)

PairRandom(i) == Replay(i, "random") /\ Call_random(i) /\ Log(i)

PairRandint(i) ==
  /\ Replay(i, "randint")
  /\ Call_randint(i, script[ncalls[i] + 1].low, script[ncalls[i] + 1].high)
  /\ Log(i)

PairGenerateSequence(i) ==
  /\ Replay(i, "generate_sequence")
  /\ Call_generate_sequence(i, script[ncalls[i] + 1].n, script[ncalls[i] + 1].scale)
  /\ Log(i)

NextPair ==
  \E i \in Inst :
    \/ PairConstruct(i)
    \/ PairNext(i)
    \/ PairRandom(i)
    \/ PairRandint(i)
    \/ PairGenerateSequence(i)

SpecPair == InitPair /\ [][NextPair]_vars

(***************************************************************************)
(* SpecXor: one XORShiftRNG, constructed with a non-zero seed of one or two *)
(* set bits or all 32, and a choice of shifts, then next() calls.          *)
(***************************************************************************)
\* next() calls made on the object
MaxSteps == 3

XorSeeds ==
  ({ ZMake(FALSE, NXor(NPow2(i), NPow2(j))) : i \in 0..32, j \in {0, 31} }
     \ { Z(0) })
  \cup { ZMake(FALSE, NPow2(i)) : i \in 0..33 }
  \cup { Z(-1) }

XorShifts == { <<DefaultQ, DefaultR, DefaultS>>, <<1, 1, 1>>, <<7, 9, 8>>,
               <<31, 31, 31>>, <<5, 17, 13>>, <<0, 17, 5>>, <<13, 17, 0>> }

InitXor ==
  /\ script = << >>
  /\ out = [i \in Inst |-> << >>]
  /\ \E seed \in XorSeeds, sh \in XorShifts :
       LET args == XORArgsOf(seed, sh[1], sh[2], sh[3])
           res  == XORShiftRNG_init(seed, sh[1], sh[2], sh[3])
       IN  /\ obj = [i \in Inst |-> IF i = 1 THEN res.obj ELSE NoObj]
           /\ last = [i \in Inst |-> IF i = 1 THEN CallRecord("init", args, NoObj, res)
                                     ELSE NoCall]
           /\ ncalls = [i \in Inst |-> IF i = 1 THEN 1 ELSE 0]

StepXor ==
  /\ ncalls[1] <= MaxSteps
  /\ Call_next(1)
  /\ UNCHANGED <<script, out>>

NextXor == StepXor

SpecXor == InitXor /\ [][NextXor]_vars

(***************************************************************************)
(* Properties.  In Spec and SpecXor the object is obj[1] and the latest    *)
(* call on it is last[1], which records the object before the call (pre),  *)
(* the arguments, and what the call returned or raised.                    *)
(***************************************************************************)
O == obj[1]

L == last[1]

IsCall(op) == L.op = op

OnLCG(op) == L.op = op /\ L.pre.kind = "LCG"

OnXOR(op) == L.op = op /\ L.pre.kind = "XORShiftRNG"

\* r is in [0, m) and m divides x - r: r is x mod m
IsResidue(r, x, m) ==
  /\ NLess(r, m)
  /\ NMod(ZAdd(x, ZMake(TRUE, r)).mag, m) = << >>

\* a, c, m (or q, r, s) of the object are those of the object before the call
SameParameters(new, old) == [new EXCEPT !.state = << >>] = [old EXCEPT !.state = << >>]

\* the object after k calls of next()
RECURSIVE After(_, _)
After(self, k) == IF k = 0 THEN self ELSE After(Next_(self).obj, k - 1)

(* C1: in every reachable state the LCG state and every value LCG.next()   *)
(* returned are in [0, m-1], the XORShiftRNG state and every value its     *)
(* next() returned are in [0, 2^32-1], and every value random() returned,  *)
(* of either generator, is a float r with 0 <= r < 1.                      *)
C1_RangeInvariants ==
  /\ O.kind = "LCG" => NLess(O.state, O.m)
  /\ O.kind = "XORShiftRNG" => NLeq(O.state, Mask32)
  /\ OnLCG("next") => NLess(L.ret.v, L.pre.m)
  /\ OnXOR("next") => NLeq(L.ret.v, Mask32)
  /\ IsCall("random") => FLessOne(L.ret.v)

\* random() of an LCG returned exactly 1.0, its state being below m
C1_Witness ==
  /\ OnLCG("random")
  /\ L.raised = "none"
  /\ FIsOne(L.ret.v)
  /\ NLess(O.state, O.m)
  /\ O.state = After(L.pre, 1).state

(* The integer part of C1, which the code does satisfy: the states and the *)
(* values next() returns are in range.                                     *)
C1_IntegerRanges ==
  /\ O.kind = "LCG" => NLess(O.state, O.m)
  /\ O.kind = "XORShiftRNG" => NLeq(O.state, Mask32)
  /\ OnLCG("next") => NLess(L.ret.v, L.pre.m)
  /\ OnXOR("next") => NLeq(L.ret.v, Mask32)

(* The float part of C1 as the code has it: random() returns a float in    *)
(* [0, 1], and 1.0 only from an LCG whose modulus is at least 2^54.        *)
C1_RandomAtMostOne ==
  IsCall("random") =>
    \/ FLessOne(L.ret.v)
    \/ /\ FIsOne(L.ret.v)
       /\ L.pre.kind = "LCG"
       /\ NLeq(NPow2(54), L.pre.m)

(* C2: randint(low, high) with low > high and generate_sequence(n) with    *)
(* n <= 0 (either scale) raise, and leave the object, state and            *)
(* parameters, exactly as it was before the call.                          *)
C2_FailuresAtomic ==
  /\ (IsCall("randint") /\ L.args.low > L.args.high)
       => L.raised = "ValueError" /\ O = L.pre
  /\ (IsCall("generate_sequence") /\ L.args.n <= 0)
       => L.raised = "ValueError" /\ O = L.pre
  /\ (L.op \in {"next", "random", "randint", "generate_sequence"}
        /\ L.raised # "none") => O = L.pre

\* a call failed on an object whose state earlier calls had already advanced
C2_Witness ==
  /\ L.op \in {"randint", "generate_sequence"}
  /\ L.raised = "ValueError"
  /\ ncalls[1] >= 3
  /\ O = L.pre

(* C3: construction with seed = 0 raises and makes no object; with any     *)
(* other seed (negative, or at or above the modulus) it makes an object    *)
(* whose state is seed mod m (LCG) or seed mod 2^32 (XORShiftRNG) and      *)
(* whose parameters are the arguments.                                     *)
C3_Construction ==
  IsCall("init") =>
    IF ZIsZero(L.args.seed)
    THEN L.raised = "ValueError" /\ O = NoObj
    ELSE /\ L.raised = "none"
         /\ O.kind = L.args.kind
         /\ O.kind = "LCG" =>
              /\ IsResidue(O.state, L.args.seed, L.args.m)
              /\ O.a = L.args.a /\ O.c = L.args.c /\ O.m = L.args.m
         /\ O.kind = "XORShiftRNG" =>
              /\ IsResidue(O.state, L.args.seed, NPow2(32))
              /\ O.q = L.args.q /\ O.r = L.args.r /\ O.s = L.args.s

\* an object was made from a negative seed
C3_Witness ==
  /\ IsCall("init")
  /\ L.args.seed.neg
  /\ L.raised = "none"
  /\ O.kind = "LCG"
  /\ O.state # L.args.seed.mag

\* an XORShiftRNG was made from a negative seed
C3_WitnessXor ==
  /\ IsCall("init")
  /\ L.args.seed.neg
  /\ O.kind = "XORShiftRNG"
  /\ O.state # L.args.seed.mag

(* C4: LCG.next() sets state to (a * state + c) mod m, the residue of the  *)
(* full product, returns the new state, and leaves a, c and m as they      *)
(* were; from seed 123456 with the default parameters the first next()     *)
(* returns (1664525 * 123456 + 1013904223) mod 2^32 = 351072415.           *)
C4_LcgNext ==
  OnLCG("next") =>
    /\ L.raised = "none"
    /\ L.ret = IntV(O.state)
    /\ SameParameters(O, L.pre)
    /\ IsResidue(O.state,
                 ZAdd(ZMul(L.pre.a, ZMake(FALSE, L.pre.state)), L.pre.c),
                 L.pre.m)
    /\ (L.pre = LCG_init(Z(123456), Z(1664525), Z(1013904223), NPow2(32)).obj)
         => L.ret.v = NFromInt(351072415)

\* next() was called where a * state does not fit 64 bits
C4_Witness ==
  /\ OnLCG("next")
  /\ NBitLen(NMul(L.pre.a.mag, L.pre.state)) > 64
  /\ L.ret = IntV(O.state)

\* the first next() of LCG(seed=123456) was called
C4_WitnessExample ==
  /\ OnLCG("next")
  /\ L.pre = LCG_init(Z(123456), Z(1664525), Z(1013904223), NPow2(32)).obj
  /\ L.ret.v = NFromInt(351072415)

\* Bit i of x after each of the three steps of XORShiftRNG.next(), on a 32-bit
\* x: a left shift by k brings bit i - k to bit i (nothing below bit k, and
\* nothing reaches bit 32 and above), a right shift by k brings bit i + k.
BitAfter1(x, q, i) ==
  (NBit(x, i) + (IF i >= q THEN NBit(x, i - q) ELSE 0)) % 2

BitAfter2(x, q, r, i) ==
  (BitAfter1(x, q, i) + (IF i + r < 32 THEN BitAfter1(x, q, i + r) ELSE 0)) % 2

BitAfter3(x, q, r, s, i) ==
  (BitAfter2(x, q, r, i) + (IF i >= s THEN BitAfter2(x, q, r, i - s) ELSE 0)) % 2

(* C5: XORShiftRNG.next() sets state to the result of x ^= (x << q) mod     *)
(* 2^32; x ^= x >> r; x ^= (x << s) mod 2^32 on the old state, each left    *)
(* shift masked to 32 bits before the next step, returns the new state and  *)
(* leaves q, r and s as they were.                                          *)
C5_XorNext ==
  OnXOR("next") =>
    /\ L.raised = "none"
    /\ L.ret = IntV(O.state)
    /\ SameParameters(O, L.pre)
    /\ NLeq(O.state, Mask32)
    /\ \A i \in 0..31 :
         NBit(O.state, i) = BitAfter3(L.pre.state, L.pre.q, L.pre.r, L.pre.s, i)
    /\ (L.pre = XORShiftRNG_init(Z(123456), 13, 17, 5).obj)
         => L.ret.v = <<228, 112, 118, 181>>

\* next() was called on a state whose first left shift passes bit 31
C5_Witness ==
  /\ OnXOR("next")
  /\ L.pre.q >= 1 /\ L.pre.q < 32
  /\ NBitLen(NShl(L.pre.state, L.pre.q)) > 32
  /\ O.state # L.pre.state

(* C6: two objects constructed by the same constructor call and driven      *)
(* through the same calls return (or raise) the same at every call both     *)
(* have made, and are equal whenever they have made the same calls.         *)
C6_Determinism ==
  /\ \A k \in 1..Len(out[1]) : k <= Len(out[2]) => out[1][k] = out[2][k]
  /\ ncalls[1] = ncalls[2] => obj[1] = obj[2]

\* both objects have made every call of the script, the other one first
C6_Witness ==
  /\ ncalls[1] = Len(script) /\ ncalls[2] = Len(script)
  /\ Len(script) > 1
  /\ obj[1] # NoObj
  /\ last[1].op = "next" /\ last[1].raised = "none"
  /\ out[1][Len(script)] = out[2][Len(script)]
  /\ out[1][Len(script)] # out[1][Len(script) - 1]

(* C7: for low <= high, randint(low, high) advances the state by exactly    *)
(* one next() step and returns low + (that next() value mod (high - low +   *)
(* 1)), which is in [low, high].                                            *)
C7_Randint ==
  (IsCall("randint") /\ L.args.low <= L.args.high) =>
    /\ L.raised = "none"
    /\ O = After(L.pre, 1)
    /\ L.ret.t = "smallint"
    /\ L.args.low <= L.ret.v /\ L.ret.v <= L.args.high
    /\ IsResidue(NFromInt(L.ret.v - L.args.low), ZMake(FALSE, O.state),
                 NFromInt(L.args.high - L.args.low + 1))

\* randint returned a value strictly inside a range of negative bounds
C7_Witness ==
  /\ IsCall("randint")
  /\ L.raised = "none"
  /\ L.args.high < 0
  /\ L.args.low < L.ret.v /\ L.ret.v < L.args.high
  /\ O # L.pre

(* C8: for n >= 1, generate_sequence(n, scale=false) returns the n values   *)
(* n successive next() calls return from the same state, in order, and      *)
(* leaves the object as those n calls leave it; so does scale=true.         *)
C8_RawSequence ==
  (IsCall("generate_sequence") /\ L.args.n >= 1) =>
    /\ L.raised = "none"
    /\ O = After(L.pre, L.args.n)
    /\ ~L.args.scale =>
         L.ret = IntsV([i \in 1..L.args.n |-> After(L.pre, i).state])

\* a raw sequence of two different values was returned
C8_Witness ==
  /\ IsCall("generate_sequence")
  /\ ~L.args.scale
  /\ L.raised = "none"
  /\ Len(L.ret.v) = 2
  /\ L.ret.v[1] # L.ret.v[2]
  /\ O.state = L.ret.v[2]

\* the list generate_sequence(n) draws from the object self
RawOf(self, n) == [i \in 1..n |-> After(self, i).state]

\* |x - y| for magnitudes
Distance(x, y) == ZAdd(ZMake(FALSE, x), ZMake(TRUE, y)).mag

\* the double v (at most 1.0) is within 2^-50 of a / b
CloseTo(v, a, b) ==
  NLeq(NShl(Distance(NMul(v.sig, b), NShl(a, -v.exp)), 50), NShl(b, -v.exp))

\* the double v is within 2^-50 of (x - lo) / (hi - lo + 1/10^6)
CloseToScaled(v, x, lo, hi) ==
  CloseTo(v, NMul(NSub(x, lo), NFromInt(1000000)),
          NAdd(NMul(NSub(hi, lo), NFromInt(1000000)), <<1>>))

FAtMostOne(v) == FLessOne(v) \/ FIsOne(v)

\* the claim made of the scaled list vs for the raw list raw
ScaledAsClaimed(vs, raw, lo, hi) ==
  /\ Len(vs) = Len(raw)
  /\ \A i \in 1..Len(raw) :
       /\ NLeq(lo, raw[i])
       /\ FLessOne(vs[i])
       /\ raw[i] = lo => FIsZero(vs[i])
       /\ CloseToScaled(vs[i], raw[i], lo, hi)

\* what holds of the scaled list vs for the raw list raw
ScaledAsBuilt(vs, raw, lo, hi) ==
  /\ Len(vs) = Len(raw)
  /\ \A i \in 1..Len(raw) :
       /\ NLeq(lo, raw[i])
       /\ FAtMostOne(vs[i])
       /\ raw[i] = lo => FIsZero(vs[i])
       /\ CloseToScaled(vs[i], raw[i], lo, hi)
       /\ NLess(NSub(hi, lo), NPow2(34)) => FLessOne(vs[i])
       /\ (NLeq(NPow2(34), NSub(hi, lo)) /\ raw[i] = hi) => FIsOne(vs[i])

C9_WitnessBelowOne ==
  /\ IsCall("generate_sequence")
  /\ L.args.scale /\ L.args.n >= 2
  /\ L.raised = "none"
  /\ \E i \in 1..Len(L.ret.v) : FIsZero(L.ret.v[i])
  /\ \E i \in 1..Len(L.ret.v) : L.ret.v[i].sig # << >> /\ L.ret.v[i].exp = -53

\* a scaled sequence of n >= 2 identical raw values
C9_WitnessDegenerate ==
  /\ IsCall("generate_sequence")
  /\ L.args.scale /\ L.args.n >= 2
  /\ L.raised = "none"
  /\ \A i \in 1..Len(L.ret.v) : FIsZero(L.ret.v[i])

ShiftsAtLeastOne(self) == self.q >= 1 /\ self.r >= 1 /\ self.s >= 1

(* C10: construction of an XORShiftRNG with a non-zero seed gives state 0   *)
(* exactly when the seed is a multiple of 2^32 (such a seed is accepted);   *)
(* for shifts q, r, s >= 1, next() maps a non-zero state to a non-zero      *)
(* state and 0 to 0, so a state that is non-zero at construction stays so.  *)
C10_NoZeroState ==
  /\ (IsCall("init") /\ ~ZIsZero(L.args.seed)) =>
       /\ L.raised = "none"
       /\ (O.state = << >>) = (NMod(L.args.seed.mag, NPow2(32)) = << >>)
  /\ (OnXOR("next") /\ ShiftsAtLeastOne(L.pre)) =>
       (O.state = << >>) = (L.pre.state = << >>)

\* next() with shifts >= 1 on a state every left shift of which is lost
C10_Witness ==
  /\ OnXOR("next")
  /\ ShiftsAtLeastOne(L.pre)
  /\ L.pre.state = NPow2(31)
  /\ O.state # << >>
  /\ O.state # L.pre.state

\* a non-zero seed that is a multiple of 2^32 was accepted, with state 0
C10_WitnessZero ==
  /\ IsCall("init")
  /\ ~ZIsZero(L.args.seed)
  /\ L.raised = "none"
  /\ O.state = << >>

====
